---- MODULE Spec2Model ----
(***************************************************************************)
(* Model of unnbound-logger: the trace context store (AsyncLocalStorage    *)
(* behind TraceContextManager), withTrace, the UnnboundLogger logging      *)
(* operations and its Express / axios middleware.                          *)
(***************************************************************************)
EXTENDS Integers, Sequences, FiniteSets, TLC

(***************************************************************************)
(* Bounds                                                                  *)
(***************************************************************************)
NumTasks == 2      \* logical tasks (continuation chains)
NumIds == 2        \* distinct caller-supplied identifiers
MaxUuid == 5       \* uuidv4() calls in one behaviour
NumWrappers == 2   \* functions wrapped by withTrace
NumPairs == 1      \* request/response object pairs
NumCalls == 1      \* outbound axios calls
MaxClock == 3      \* milliseconds the clock runs for
MaxLen == 3        \* characters in a path or a route pattern
NumInflight == 2   \* requests in flight at once, each with its own req/res pair

(***************************************************************************)
(* JavaScript values                                                       *)
(***************************************************************************)
Undefined == <<"undefined", 0>>
EmptyStr == <<"str", 0>>
Str(n) == <<"str", n>>
Uuid(n) == <<"uuid", n>>

Num(n) == <<"num", n>>

\* JavaScript truthiness of an optional string or number: undefined, '' and 0
\* are falsy
Truthy(v) == v # Undefined /\ v # EmptyStr /\ v # Num(0)

\* a || b
Or(a, b) == IF Truthy(a) THEN a ELSE b

Tasks == 1..NumTasks
Wrappers == 1..NumWrappers
\* the task that calls the logger inside a scope
Callers == {1}
Pairs == 1..NumPairs
Calls == 1..NumCalls
CallerIds == {Str(n) : n \in 1..NumIds}
RunIds == CallerIds \cup {EmptyStr}
OptIds == {Undefined, EmptyStr, Str(1)}
Mgrs == {"utils", "tracing"}
Promise(t) == <<"promise", t>>
Lit(x) == <<"lit", x>>

\* JavaScript objects are functions from keys to values
EmptyObj == <<>>
Obj1(k, v) == [x \in {k} |-> v]
\* { ...a, ...b }
Spread(a, b) == [k \in DOMAIN a \cup DOMAIN b |-> IF k \in DOMAIN b THEN b[k] ELSE a[k]]
\* the rest of o after destructuring keys out of it
Rest(o, keys) == [k \in DOMAIN o \ keys |-> o[k]]
\* o.k, undefined when o has no key k
Field(o, k) == IF k \in DOMAIN o THEN o[k] ELSE Undefined

Levels == {"error", "warn", "info", "debug"}
NoLevel == "undefined"
OptLevels == Levels \cup {NoLevel}
StatusCodes == {200, 399, 400, 404, 499, 500}
OkCodes == {200}
TxStatuses == {"success", "failure"}

\* the message argument of log(): a string, an Error, an object, or null
\* (typeof null === 'object')
Messages ==
  {[kind |-> "string", fields |-> EmptyObj],
   [kind |-> "null", fields |-> EmptyObj],
   [kind |-> "error", fields |-> EmptyObj],
   [kind |-> "object", fields |-> Obj1("event", Lit("login"))],
   [kind |-> "object", fields |-> Obj1("traceId", Str(NumIds))],
   [kind |-> "object", fields |-> Obj1("traceId", EmptyStr)],
   [kind |-> "object", fields |-> Spread(Obj1("logId", Str(1)), Obj1("userId", Lit(7)))]}
\* what the callback of run() returns
Results == {Str(1), Undefined}

VARIABLES
  current,      \* per manager, the store of the executing code (getStore())
  callstack,    \* synchronous call stack: frames of run() calls and resumed continuations
  status,       \* per task: "new", "running", "suspended", "done"
  captured,     \* per task: the stores captured by its pending continuation
  scope,        \* per task: the id given to the run() that started it
  lastGet,      \* the getTraceId() call that has just returned: calling task, value
  runResult,    \* the run() call that has just returned: callback's result, run's, the wrapper's
  wrapId,       \* per withTrace wrapper: the id fixed when withTrace was called
  uuidCount,    \* number of uuidv4() calls made so far
  reqRes,       \* per pair: whether req.res is the pair's response object
  locals,       \* per pair: res.locals, the stash httpRequest leaves for httpResponse
  reqLog,       \* per pair: the requestId of the entry the last httpRequest(req) returned
  last,         \* the backend call the logging operation that has just returned made
  config,       \* the options the logger was constructed with
  traceIdMap,   \* the module-level Map of workflowId to traceId of the id generator
  inbound,      \* per pair: what traceMiddleware did to the request and its response
  outbound,     \* per outbound call: the config axiosTraceMiddleware.onFulfilled returned
  clock         \* Date.now(), in milliseconds

mwVars == <<config, traceIdMap, inbound, outbound>>
vars == <<current, callstack, status, captured, scope, lastGet, runResult, wrapId, uuidCount,
          reqRes, locals, reqLog, last, config, traceIdMap, inbound, outbound, clock>>

NoStores == [m \in Mgrs |-> Undefined]
NoResult == [task |-> 0, id |-> Undefined, wrapper |-> 0, fn |-> Undefined, ret |-> Undefined,
             wret |-> Undefined]
NoGet == [task |-> 0, value |-> Undefined]
NoLocals == [requestId |-> Undefined, traceId |-> Undefined, startTime |-> Undefined]
NoRecord == [op |-> "none"]
NoConfig == [ignoreTraceRoutes |-> <<>>, ignoreAxiosTraceRoutes |-> <<>>]
NoInbound == [seen |-> FALSE, path |-> <<>>, header |-> Undefined, resHeader |-> Undefined,
              wrapped |-> 0, listeners |-> <<>>, next |-> 0, nextScope |-> Undefined,
              logged |-> 0, finished |-> FALSE, answer |-> NoRecord]
NoOutbound == [sent |-> FALSE, url |-> <<>>, baseURL |-> <<>>, header |-> Undefined,
               metadata |-> Undefined, logged |-> 0, ambient |-> Undefined,
               traceId |-> Undefined, startTime |-> Undefined, settled |-> FALSE,
               error |-> Undefined, returned |-> Undefined, answered |-> 0,
               answer |-> NoRecord]

\* lastGet, runResult and last describe the call that has just returned
Forget == lastGet' = NoGet /\ runResult' = NoResult
MwIdle == UNCHANGED <<mwVars, clock>>
LogIdle == last = NoRecord /\ UNCHANGED <<reqRes, locals, reqLog, last>> /\ MwIdle

\* the task whose code is executing, 0 for top-level code
Executing == IF callstack = <<>> THEN 0 ELSE callstack[Len(callstack)].task

(***************************************************************************)
(* uuid                                                                    *)
(***************************************************************************)
\* the value of the k-th uuidv4() call of an operation
uuidv4(k) == Uuid(uuidCount + k)
CanMint(k) == uuidCount + k <= MaxUuid

(***************************************************************************)
(* utils/trace-context.ts, tracing/trace-context.ts (AsyncLocalStorage)    *)
(***************************************************************************)
\* storage.getStore()?.traceId of one manager
getStore(mgr) == current[mgr]

\* TraceContextManager.getTraceId() of utils/trace-context.ts: context?.traceId
getTraceId == getStore("utils")

\* the stores a continuation runs in: those captured when it was created
ResumeStores_lost(t) == current
ResumeStores(t) == captured[t]

\* the stores after run()'s callback has returned: those saved on entry
ExitStores_kept(frame) == current
ExitStores(frame) == frame.saved

\* what run() hands back to its caller, given what the callback returned
RunReturn_void(mgr, r) == Undefined
RunReturn(mgr, r) == IF mgr = "utils" THEN r ELSE Undefined

\* storage.run({ traceId }, callback): enter the callback (task t) in a scope holding id
Enter(t, mgr, id, w) ==
  /\ status[t] = "new"
  /\ callstack' = Append(callstack, [task |-> t, kind |-> "run", mgr |-> mgr,
                                     wrapper |-> w, saved |-> current])
  /\ current' = [current EXCEPT ![mgr] = id]
  /\ status' = [status EXCEPT ![t] = "running"]
  /\ scope' = [scope EXCEPT ![t] = id]

\* traceContext.run(traceId, callback)
Run(t, mgr, id) ==
  /\ Enter(t, mgr, id, 0)
  /\ Forget
  /\ UNCHANGED <<captured, wrapId, uuidCount>>
  /\ LogIdle

\* const id = traceId || uuidv4()
WrapperId_shared(traceId, fresh) == Or(traceId, Uuid(1))
WrapperId(traceId, fresh) == Or(traceId, fresh)

\* withTrace(fn, traceId), the wrappers being numbered in the order they are made
WithTrace(w, traceId) ==
  /\ wrapId[w] = Undefined
  /\ \A v \in Wrappers : v < w => wrapId[v] # Undefined
  /\ wrapId' = [wrapId EXCEPT ![w] = WrapperId(traceId, uuidv4(1))]
  /\ IF Truthy(traceId)
     THEN UNCHANGED uuidCount
     ELSE /\ CanMint(1)
          /\ uuidCount' = uuidCount + 1
  /\ Forget
  /\ UNCHANGED <<current, callstack, status, captured, scope>>
  /\ LogIdle

\* the id the closure withTrace returned holds
ClosureId_perCall(w) == uuidv4(1)
ClosureId(w) == wrapId[w]

\* calling the wrapped function: traceContext.run(id, () => fn(...args))
Invoke(w, t) ==
  /\ wrapId[w] # Undefined
  /\ Enter(t, "utils", ClosureId(w), w)
  /\ Forget
  /\ UNCHANGED <<captured, wrapId, uuidCount>>
  /\ LogIdle

\* the executing task reads the ambient trace id
GetTraceId(t, mgr) ==
  /\ Executing = t
  /\ t # 0
  /\ lastGet' = [task |-> t, value |-> getStore(mgr)]
  /\ runResult' = NoResult
  /\ UNCHANGED <<current, callstack, status, captured, scope, wrapId, uuidCount>>
  /\ LogIdle

\* the callback of the top frame hands r back: the stores are restored and, for
\* a run() frame, run() returns (and through it the withTrace wrapper)
Pop(frame, t, r) ==
  /\ callstack' = SubSeq(callstack, 1, Len(callstack) - 1)
  /\ current' = ExitStores(frame)
  /\ runResult' = IF frame.kind = "run"
                  THEN [task |-> t, id |-> scope[t], wrapper |-> frame.wrapper, fn |-> r,
                        ret |-> RunReturn(frame.mgr, r),
                        wret |-> IF frame.wrapper # 0 THEN RunReturn(frame.mgr, r) ELSE Undefined]
                  ELSE NoResult
  /\ lastGet' = NoGet

\* the executing task reaches an await: its continuation captures the stores and
\* the synchronous call unwinds (an async callback hands its promise to run())
Await(t) ==
  /\ Executing = t
  /\ t # 0
  /\ captured' = [captured EXCEPT ![t] = current]
  /\ status' = [status EXCEPT ![t] = "suspended"]
  /\ Pop(callstack[Len(callstack)], t, Promise(t))
  /\ UNCHANGED <<scope, wrapId, uuidCount>>
  /\ LogIdle

\* the executing task's function returns r
Return(t, r) ==
  /\ Executing = t
  /\ t # 0
  /\ status' = [status EXCEPT ![t] = "done"]
  /\ scope' = [scope EXCEPT ![t] = Undefined]
  /\ captured' = [captured EXCEPT ![t] = NoStores]
  /\ Pop(callstack[Len(callstack)], t, r)
  /\ UNCHANGED <<wrapId, uuidCount>>
  /\ LogIdle

\* the event loop runs the pending continuation of a suspended task
Resume(t) ==
  /\ callstack = <<>>
  /\ status[t] = "suspended"
  /\ callstack' = <<[task |-> t, kind |-> "resume", mgr |-> "utils",
                     wrapper |-> 0, saved |-> current]>>
  /\ current' = ResumeStores(t)
  /\ status' = [status EXCEPT ![t] = "running"]
  /\ Forget
  /\ UNCHANGED <<captured, scope, wrapId, uuidCount>>
  /\ LogIdle

(***************************************************************************)
(* unnbound-logger.ts: the logging operations                              *)
(***************************************************************************)
\* pino({ level: 'info', ... }): the backend drops calls below its level
PinoLevel == "info"
LevelValue(l) == CASE l = "debug" -> 20 [] l = "info" -> 30 [] l = "warn" -> 40 [] l = "error" -> 50
BackendWrites(level) == LevelValue(level) >= LevelValue(PinoLevel)

NoOptions == [traceId |-> Undefined, requestId |-> Undefined, level |-> NoLevel,
              extra |-> EmptyObj, duration |-> Undefined, startTime |-> Undefined]
NoMessage == [kind |-> "string", fields |-> EmptyObj]

\* this.logger[level](logData, logMessage), with what the operation was called
\* with and the trace id that was ambient when it was called
Emit(op, level, data, args, ambient) ==
  last' = [op |-> op, level |-> level, data |-> data, written |-> BackendWrites(level),
           task |-> Executing, active |-> ambient, args |-> args, now |-> clock]

\* the operation raises to its caller before it reaches the backend
Throw(op, args, ambient) ==
  last' = [op |-> "raised", by |-> op, level |-> NoLevel, data |-> EmptyObj, written |-> FALSE,
           task |-> Executing, active |-> ambient, args |-> args, now |-> clock]

\* a millisecond passes between two calls
Tick ==
  /\ last = NoRecord
  /\ clock < MaxClock
  /\ clock' = clock + 1
  /\ Forget
  /\ UNCHANGED <<current, callstack, status, captured, scope, wrapId, uuidCount,
                 reqRes, locals, reqLog, last>>
  /\ UNCHANGED mwVars

\* the call has been served and the caller goes on
Flush ==
  /\ last # NoRecord
  /\ last' = NoRecord
  /\ Forget
  /\ UNCHANGED <<current, callstack, status, captured, scope, wrapId, uuidCount,
                 reqRes, locals, reqLog>>
  /\ MwIdle

Args(message, options, pair, stash, statusCode) ==
  [message |-> message, options |-> options, pair |-> pair, stash |-> stash,
   statusCode |-> statusCode]

\* options.traceId || traceContext.getTraceId() || uuidv4()
ResolveTraceId_noScope(optTraceId, ambient, fresh) == Or(optTraceId, fresh)
ResolveTraceId(optTraceId, ambient, fresh) == Or(Or(optTraceId, ambient), fresh)

\* options.requestId || uuidv4()
ResolveRequestId(optRequestId, fresh) == Or(optRequestId, fresh)

\* the ids of log(), httpRequest(), sftpTransaction() and dbQueryTransaction():
\* logId, traceId and requestId in the order the code mints them, after m
\* earlier uuidv4() calls of the same handler
Ids(options, ambient, m) ==
  LET n1 == IF Truthy(Or(options.traceId, ambient)) THEN m + 1 ELSE m + 2
      n2 == IF Truthy(options.requestId) THEN n1 ELSE n1 + 1
  IN [logId |-> uuidv4(m + 1),
      traceId |-> ResolveTraceId(options.traceId, ambient, uuidv4(m + 2)),
      requestId |-> ResolveRequestId(options.requestId, uuidv4(n1 + 1)),
      minted |-> n2]

BaseEntry(type, ids) ==
  [k \in {"logId", "type", "traceId", "requestId"} |->
     CASE k = "logId" -> ids.logId
       [] k = "type" -> Lit(type)
       [] k = "traceId" -> ids.traceId
       [] k = "requestId" -> ids.requestId]

\* the logEntry log() builds from the three kinds of message
LogEntry(ids, message, options) ==
  LET baseEntry == BaseEntry("general", ids)
  IN CASE message.kind = "error" ->
            Spread(Spread(Spread(baseEntry, Obj1("message", Lit("Error"))),
                          Obj1("error", Lit("SerializableError"))), options.extra)
       [] message.kind = "string" ->
            Spread(Spread(baseEntry, Obj1("message", Lit("text"))), options.extra)
       [] message.kind = "object" ->
            Spread(Spread(Spread(baseEntry, message.fields),
                          Obj1("message", Or(Field(message.fields, "message"),
                                             Lit("Structured log data")))),
                   options.extra)

\* log(level, message, options); a null message takes the object branch, where
\* reading (message as { message?: string }).message is a TypeError
Write(level, message, options) ==
  LET ids == Ids(options, getTraceId, 0)
      logEntry == LogEntry(ids, message, options)
      logData == Rest(logEntry, {"message", "level"})
  IN /\ CanMint(ids.minted)
     /\ uuidCount' = uuidCount + ids.minted
     /\ IF message.kind = "null"
        THEN Throw("log", Args(message, options, 0, NoLocals, 0), getTraceId)
        ELSE Emit("log", level, logData, Args(message, options, 0, NoLocals, 0),
                  getTraceId)

\* log(level, message, options) called by the application
Log(level, message, options) ==
  /\ last = NoRecord
  /\ Write(level, message, options)
  /\ Forget
  /\ UNCHANGED <<current, callstack, status, captured, scope, wrapId, reqRes, locals, reqLog>>
  /\ MwIdle

\* Express sets req.res = res before any middleware sees the pair
Attach(p) ==
  /\ last = NoRecord
  /\ ~reqRes[p]
  /\ reqLog[p] = Undefined
  /\ ~inbound[p].seen
  /\ reqRes' = [reqRes EXCEPT ![p] = TRUE]
  /\ Forget
  /\ UNCHANGED <<current, callstack, status, captured, scope, wrapId, uuidCount, locals,
                 reqLog, last>>
  /\ MwIdle

\* a header name in some letter-casing, and key.toLowerCase()
Key(name, casing) == <<name, casing>>
toLowerCase(key) == Key(key[1], "lower")

\* ALLOWED_HEADERS (those of them the model's requests carry)
ALLOWED_HEADERS == {Key("content-type", "lower"), Key("host", "lower")}

\* the previous sanitizeHeaders: the headers with the values of the
\* lower-case sensitive keys replaced
filterHeaders_sanitize(headers) ==
  [key \in DOMAIN headers |->
     IF key \in {Key("authorization", "lower"), Key("cookie", "lower")}
     THEN Lit("[REDACTED]")
     ELSE headers[key]]

\* filterHeaders(headers): the entries whose lower-cased key is allowed, the
\* values being strings, which String() leaves as they are
filterHeaders(headers) ==
  [key \in {k \in DOMAIN headers : toLowerCase(k) \in ALLOWED_HEADERS} |-> headers[key]]

\* the body of httpRequest(req, options), req being the request of pair p (0: a
\* request object that has no res) with the given req.headers, called where
\* ambient is the active trace id
RequestWith(p, headers, options, ambient, m) ==
  LET ids == Ids(options, ambient, m)
      logData == Spread(Spread(BaseEntry("httpRequest", ids), Obj1("duration", Num(0))),
                        Obj1("headers", filterHeaders(headers)))
      level == IF options.level # NoLevel THEN options.level ELSE "info"
  IN /\ CanMint(ids.minted)
     /\ uuidCount' = uuidCount + ids.minted
     /\ locals' = IF p # 0 /\ reqRes[p]
                  THEN [locals EXCEPT ![p] = [requestId |-> ids.requestId,
                                               traceId |-> ids.traceId,
                                               startTime |-> Or(options.startTime, Num(clock))]]
                  ELSE locals
     /\ reqLog' = IF p # 0 THEN [reqLog EXCEPT ![p] = ids.requestId] ELSE reqLog
     /\ Emit("httpRequest", level, logData,
             Spread(Args(NoMessage, options, p, NoLocals, 0), Obj1("headers", headers)),
             ambient)

\* httpRequest of a request that has no headers
Request(p, options, ambient, m) == RequestWith(p, EmptyObj, options, ambient, m)

\* httpRequest(req, options), req.headers being headers
HttpRequestWith(p, headers, options) ==
  /\ last = NoRecord
  /\ RequestWith(p, headers, options, getTraceId, 0)
  /\ Forget
  /\ UNCHANGED <<current, callstack, status, captured, scope, wrapId, reqRes>>
  /\ MwIdle

\* httpRequest(req, options)
HttpRequest(p, options) == HttpRequestWith(p, EmptyObj, options)

\* res.locals.requestId || options.requestId || uuidv4()
ResponseRequestId_noStash(stashed, optRequestId, fresh) == Or(optRequestId, fresh)
ResponseRequestId(stashed, optRequestId, fresh) == Or(Or(stashed, optRequestId), fresh)

\* res.locals.traceId || options.traceId || traceContext.getTraceId() || uuidv4()
ResponseTraceId_noOptions(stashed, optTraceId, ambient, fresh) ==
  Or(Or(stashed, ambient), fresh)
ResponseTraceId(stashed, optTraceId, ambient, fresh) ==
  Or(Or(Or(stashed, optTraceId), ambient), fresh)

\* the level httpResponse logs at
ResponseLevel_derived(optLevel, statusCode) == IF statusCode >= 400 THEN "error" ELSE "info"
ResponseLevel(optLevel, statusCode) ==
  IF optLevel # NoLevel
  THEN optLevel
  ELSE IF statusCode >= 400 THEN "error" ELSE "info"

\* const startTime = res.locals.startTime || options.startTime || Date.now();
\* const duration = options.duration || (Date.now() - startTime), the handler
\* running within one tick of the clock
ResponseDuration(stash, options, now) ==
  LET startTime == Or(Or(stash.startTime, options.startTime), Num(now))
  IN Or(options.duration, Num(now - startTime[2]))

\* options.duration || (options.startTime ? Date.now() - options.startTime : 0)
TxDuration(options, now) ==
  Or(options.duration,
     IF Truthy(options.startTime) THEN Num(now - options.startTime[2]) ELSE Num(0))

\* the ids of httpResponse(): logId, requestId and traceId in the order minted
ResponseIds(stash, options, ambient) ==
  LET n1 == IF Truthy(Or(stash.requestId, options.requestId)) THEN 1 ELSE 2
      n2 == IF Truthy(Or(Or(stash.traceId, options.traceId), ambient)) THEN n1 ELSE n1 + 1
  IN [logId |-> uuidv4(1),
      requestId |-> ResponseRequestId(stash.requestId, options.requestId, uuidv4(2)),
      traceId |-> ResponseTraceId(stash.traceId, options.traceId, ambient, uuidv4(n1 + 1)),
      minted |-> n2]

\* the body of httpResponse(res, req, options), res.locals holding stash
Respond(p, stash, statusCode, options) ==
  LET ids == ResponseIds(stash, options, getTraceId)
      logData == Spread(Spread(BaseEntry("httpResponse", ids), Obj1("status", Lit(statusCode))),
                        Obj1("duration", ResponseDuration(stash, options, clock)))
  IN /\ CanMint(ids.minted)
     /\ uuidCount' = uuidCount + ids.minted
     /\ Emit("httpResponse", ResponseLevel(options.level, statusCode), logData,
             Args(NoMessage, options, p, stash, statusCode), getTraceId)

\* res.locals of the res object of pair p
Stash_shared(p) == locals[1]
Stash(p) == locals[p]

\* httpResponse(res, req, options) on a pair
HttpResponse(p, statusCode, options) ==
  /\ last = NoRecord
  /\ Respond(p, Stash(p), statusCode, options)
  /\ Forget
  /\ UNCHANGED <<current, callstack, status, captured, scope, wrapId, reqRes, locals, reqLog>>
  /\ MwIdle

\* const level = operation.status === 'success' ? 'info' : 'error'
TxLevel_info(txStatus) == "info"
TxLevel(txStatus) == IF txStatus = "success" THEN "info" ELSE "error"

\* sftpTransaction(operation, options) and dbQueryTransaction(query, options)
Transaction(type, txStatus, options) ==
  /\ last = NoRecord
  /\ LET ids == Ids(options, getTraceId, 0)
         logData == Spread(Spread(BaseEntry(type, ids), Obj1("txStatus", Lit(txStatus))),
                           Obj1("duration", TxDuration(options, clock)))
     IN /\ CanMint(ids.minted)
        /\ uuidCount' = uuidCount + ids.minted
        /\ Emit(type, TxLevel(txStatus), logData, Args(NoMessage, options, 0, NoLocals, 0),
                getTraceId)
  /\ Forget
  /\ UNCHANGED <<current, callstack, status, captured, scope, wrapId, reqRes, locals, reqLog>>
  /\ MwIdle

SftpTransaction(txStatus, options) == Transaction("sftpTransaction", txStatus, options)

DbQueryTransaction(txStatus, options) == Transaction("dbQueryTransaction", txStatus, options)

\* req.headers: up to two headers, the sensitive ones in several casings
HeaderKeys ==
  {Key("authorization", "lower"), Key("authorization", "title"), Key("authorization", "upper"),
   Key("cookie", "lower"), Key("cookie", "title"),
   Key("content-type", "lower"), Key("content-type", "title")}
HeaderSets ==
  UNION {[K -> {Str(1), Str(2)}] : K \in {J \in SUBSET HeaderKeys : Cardinality(J) <= 2}}

\* the options the callers pass
OptRequestIds == {Undefined, Str(1)}
IdOptions == [traceId : OptIds, requestId : OptRequestIds, level : {NoLevel},
              extra : {EmptyObj}, duration : {Undefined}, startTime : {Undefined}]
\* options with fields besides traceId, requestId and level (restOptions)
ExtraOptions == [traceId : {Undefined}, requestId : {Undefined}, level : {NoLevel},
                 extra : {Obj1("userId", Lit(7)), Obj1("type", Lit("custom"))},
                 duration : {Undefined}, startTime : {Undefined}]
LevelOptions == [traceId : {Undefined}, requestId : OptRequestIds, level : OptLevels,
                 extra : {EmptyObj}, duration : {Undefined}, startTime : {Undefined}]
\* options.duration and options.startTime, in milliseconds
Durations == {Undefined, Num(0), Num(7)}
\* the last start time read from a clock that runs ahead of Date.now()
StartTimes == {Undefined, Num(1), Num(MaxClock + 1)}
DurationOptions == [traceId : {Undefined}, requestId : {Undefined}, level : {NoLevel},
                    extra : {EmptyObj}, duration : Durations, startTime : StartTimes]
\* options: HttpResponseLogOptions with ids and a start time
ResponseOptions == [traceId : OptIds, requestId : OptRequestIds, level : {NoLevel},
                    extra : {EmptyObj}, duration : {Undefined}, startTime : StartTimes]
\* the options of sftpTransaction and dbQueryTransaction
TxOptions == DurationOptions \cup LevelOptions
\* options: GeneralLogOptions of log()
LogOptions == IdOptions \cup ExtraOptions \cup LevelOptions

(***************************************************************************)
(* unnbound-logger.ts: route patterns (strings are sequences of characters) *)
(***************************************************************************)
\* s.replace(/c/g, r)
RECURSIVE ReplaceAll(_, _, _)
ReplaceAll(s, c, r) ==
  IF s = <<>>
  THEN <<>>
  ELSE (IF Head(s) = c THEN r ELSE <<Head(s)>>) \o ReplaceAll(Tail(s), c, r)

\* pattern.replace(/\./g, '\\.').replace(/\*/g, '.*').replace(/\?/g, '.')
RegexPattern(pattern) ==
  ReplaceAll(ReplaceAll(ReplaceAll(pattern, ".", <<"\\", ".">>), "*", <<".", "*">>),
             "?", <<".">>)

\* the atoms of a regular expression source: an escaped character, '.', or a
\* plain character, each with its quantifier ('*', '+' or none)
RECURSIVE Atoms(_)
Atoms(re) ==
  IF re = <<>>
  THEN <<>>
  ELSE LET esc == Head(re) = "\\" /\ Len(re) >= 2
           n == IF esc THEN 2 ELSE 1
           q == IF Len(re) > n /\ re[n + 1] \in {"*", "+"} THEN re[n + 1] ELSE "1"
           used == IF q = "1" THEN n ELSE n + 1
       IN <<[any |-> ~esc /\ Head(re) = ".", c |-> IF esc THEN re[2] ELSE Head(re), q |-> q]>>
          \o Atoms(SubSeq(re, used + 1, Len(re)))

\* whether atoms i.. match the characters j.. of s up to its end
RECURSIVE Match(_, _, _, _)
Match(atoms, i, s, j) ==
  IF i > Len(atoms)
  THEN j > Len(s)
  ELSE LET a == atoms[i]
           hit == j <= Len(s) /\ (a.any \/ s[j] = a.c)
       IN CASE a.q = "1" -> hit /\ Match(atoms, i + 1, s, j + 1)
            [] a.q = "*" -> Match(atoms, i + 1, s, j) \/ (hit /\ Match(atoms, i, s, j + 1))
            [] a.q = "+" -> hit /\ (Match(atoms, i + 1, s, j + 1) \/ Match(atoms, i, s, j + 1))

\* new RegExp(`^${regexPattern}$`).test(path)
Test(regexPattern, path) == Match(Atoms(regexPattern), 1, path, 1)

\* shouldIgnorePath(path, patterns)
shouldIgnorePath(path, patterns) ==
  \E i \in 1..Len(patterns) : Test(RegexPattern(patterns[i]), path)

\* the routes, paths and URLs of the model; "s" stands for an origin such as
\* https://api.example.com
HealthPath == <<"/", "h">>
HealthxPath == <<"/", "h", "x">>
UsersPath == <<"/", "a", "/", "u">>
ApiPattern == <<"/", "a", "/", "*">>
Origin == <<"s">>
HealthUrl == Origin \o HealthPath

InboundPaths == {HealthPath, HealthxPath, UsersPath}
TraceRoutes == {<<>>, <<HealthPath, ApiPattern>>}
\* config.url and config.baseURL || ''
Urls == {HealthPath, UsersPath, HealthUrl}
BaseUrls == {<<>>, Origin}
AxiosRoutes == {<<>>, <<HealthUrl>>, <<HealthPath>>}
HeaderValues == {Undefined, EmptyStr, Str(1)}

\* paths and glob patterns over a few characters; the patterns are those whose
\* regular expression source compiles, a '+' having something to repeat
Strings(chars) == UNION {[1..n -> chars] : n \in 1..MaxLen}
GlobPaths == Strings({"a", "b", "+", "."})
GlobPatterns ==
  {g \in Strings({"a", "+", ".", "*", "?"}) :
     \A i \in 1..Len(g) : g[i] = "+" => (i > 1 /\ g[i - 1] \notin {"+", "*"})}

\* new UnnboundLogger(options)
Configs == [ignoreTraceRoutes : TraceRoutes, ignoreAxiosTraceRoutes : AxiosRoutes]

(***************************************************************************)
(* unnbound-logger.ts: traceMiddleware and axiosTraceMiddleware            *)
(***************************************************************************)
\* req.header(this.traceHeaderKey) || uuidv4()
TraceHeaderId_fresh(header, fresh) == fresh
TraceHeaderId(header, fresh) == Or(header, fresh)

\* traceMiddleware(req, res, next) for the request of pair p, up to its call of
\* next(); the handler behind next() runs as task t inside the scope. Requests
\* are numbered in the order they arrive
TraceMiddleware(p, t, path, header) ==
  /\ last = NoRecord
  /\ callstack = <<>>
  /\ ~inbound[p].seen
  /\ \A q \in Pairs : q < p => inbound[q].seen
  /\ IF shouldIgnorePath(path, config.ignoreTraceRoutes)
     THEN /\ inbound' = [inbound EXCEPT ![p] =
                           [NoInbound EXCEPT !.seen = TRUE, !.path = path, !.header = header,
                                             !.next = 1, !.nextScope = getTraceId]]
          /\ UNCHANGED <<current, callstack, status, scope, uuidCount, locals, reqLog, last>>
     ELSE LET m == IF Truthy(header) THEN 0 ELSE 1
              traceId == TraceHeaderId(header, uuidv4(1))
              options == [NoOptions EXCEPT !.traceId = traceId]
              logged == Ids(options, traceId, m)
          IN /\ Enter(t, "utils", traceId, 0)
             /\ Request(p, options, traceId, m)
             /\ inbound' = [inbound EXCEPT ![p] =
                              [seen |-> TRUE, path |-> path, header |-> header,
                               resHeader |-> traceId, wrapped |-> 1,
                               listeners |-> <<[requestId |-> logged.requestId,
                                                traceId |-> traceId]>>,
                               next |-> 1, nextScope |-> current'["utils"], logged |-> 1,
                               finished |-> FALSE, answer |-> NoRecord]]
  /\ Forget
  /\ UNCHANGED <<captured, wrapId, reqRes, config, traceIdMap, outbound, clock>>

\* the response's 'finish' event: the listener traceMiddleware registered runs
\* httpResponse(res, req, { requestId: reqLog.requestId, traceId })
Finish(p, statusCode) ==
  /\ last = NoRecord
  /\ callstack = <<>>
  /\ inbound[p].seen
  /\ ~inbound[p].finished
  /\ IF inbound[p].listeners = <<>>
     THEN UNCHANGED <<uuidCount, last>>
     ELSE LET l == inbound[p].listeners[1]
          IN Respond(p, locals[p], statusCode,
                     [NoOptions EXCEPT !.requestId = l.requestId, !.traceId = l.traceId])
  /\ inbound' = [inbound EXCEPT ![p].finished = TRUE, ![p].answer = last']
  /\ Forget
  /\ UNCHANGED <<current, callstack, status, captured, scope, wrapId, reqRes, locals, reqLog,
                 config, traceIdMap, outbound, clock>>

\* the url the interceptors log and the response side tests
FullUrl(call) == call.baseURL \o call.url

\* if (traceId) headers.set(this.traceHeaderKey, traceId): the trace header of
\* the config onFulfilled returns, the config passed in having none
OutboundHeader_none(traceId) == Undefined
OutboundHeader(traceId) == IF Truthy(traceId) THEN traceId ELSE Undefined

\* axiosTraceMiddleware.onFulfilled(config) for outbound call c, the calls
\* being numbered in the order they are made
AxiosOnFulfilled(c, url, baseURL) ==
  /\ last = NoRecord
  /\ ~outbound[c].sent
  /\ ~outbound[c].settled
  /\ \A d \in Calls : d < c => (outbound[d].sent \/ outbound[d].settled)
  /\ IF url # <<>> /\ shouldIgnorePath(url, config.ignoreAxiosTraceRoutes)
     THEN /\ outbound' = [outbound EXCEPT ![c] =
                            [NoOutbound EXCEPT !.sent = TRUE, !.url = url,
                                               !.baseURL = baseURL, !.ambient = getTraceId]]
          /\ UNCHANGED <<uuidCount, locals, reqLog, last>>
     ELSE LET traceId == getTraceId
              requestId == uuidv4(1)
              startTime == Num(clock)
              options == [NoOptions EXCEPT !.traceId = traceId, !.requestId = requestId,
                                           !.startTime = startTime]
          IN /\ Request(0, options, getTraceId, 1)
             /\ outbound' = [outbound EXCEPT ![c] =
                               [NoOutbound EXCEPT
                               !.sent = TRUE, !.url = url, !.baseURL = baseURL,
                               !.header = OutboundHeader(traceId),
                               !.metadata = requestId, !.startTime = startTime,
                               !.logged = 1, !.ambient = getTraceId,
                               !.traceId = Ids(options, getTraceId, 1).traceId]]
  /\ Forget
  /\ UNCHANGED <<current, callstack, status, captured, scope, wrapId, reqRes, config,
                 traceIdMap, inbound, clock>>

\* a failed outbound call: the error axios rejects with, which carries the
\* response when the server answered (error.response.status) and none when
\* the failure is a transport failure
NoResponse == 0
FailureStatuses == {NoResponse, 399, 404, 500}
AxiosError(c, response) == [call |-> c, response |-> response]

\* Promise.reject(error)
Reject_fulfilled(error) == [state |-> "fulfilled", value |-> error]
Reject(error) == [state |-> "rejected", value |-> error]

\* axiosTraceMiddleware.onRejected(error): the request of call c failed before
\* it was sent
AxiosTraceOnRejected(c, response) ==
  /\ last = NoRecord
  /\ ~outbound[c].sent
  /\ ~outbound[c].settled
  /\ \A d \in Calls : d < c => (outbound[d].sent \/ outbound[d].settled)
  /\ outbound' = [outbound EXCEPT ![c] =
                    [NoOutbound EXCEPT !.settled = TRUE, !.error = AxiosError(c, response),
                                       !.returned = Reject(AxiosError(c, response))]]
  /\ Forget
  /\ UNCHANGED <<current, callstack, status, captured, scope, wrapId, uuidCount, reqRes,
                 locals, reqLog, last, config, traceIdMap, inbound, clock>>

\* axiosResponseInterceptor.onRejected(error), error.config being the config
\* onFulfilled returned for call c
AxiosResponseOnRejected(c, response) ==
  /\ last = NoRecord
  /\ outbound[c].sent
  /\ ~outbound[c].settled
  /\ LET error == AxiosError(c, response)
         url == FullUrl(outbound[c])
         ignored == url # <<>> /\ shouldIgnorePath(url, config.ignoreAxiosTraceRoutes)
         startTime == Or(outbound[c].startTime, Num(clock))
         requestId == outbound[c].metadata
         duration == Num(clock - startTime[2])
         mockLocals == [requestId |-> requestId, traceId |-> getTraceId,
                        startTime |-> startTime]
     IN /\ IF ignored
           THEN UNCHANGED <<uuidCount, last>>
           ELSE IF response # NoResponse
                THEN Respond(0, mockLocals, response,
                             [NoOptions EXCEPT !.requestId = requestId, !.duration = duration,
                                               !.traceId = getTraceId])
                ELSE Write("error", [kind |-> "string", fields |-> EmptyObj],
                           [NoOptions EXCEPT
                              !.extra = Spread(Obj1("context", Lit("No response received")),
                                               Obj1("error", Lit("error.message"))),
                              !.requestId = requestId, !.traceId = getTraceId])
        /\ outbound' = [outbound EXCEPT ![c].settled = TRUE, ![c].error = error,
                                        ![c].returned = Reject(error),
                                        ![c].answered = IF ignored THEN 0 ELSE 1,
                                        ![c].answer = last']
  /\ Forget
  /\ UNCHANGED <<current, callstack, status, captured, scope, wrapId, reqRes, locals, reqLog,
                 config, traceIdMap, inbound, clock>>

\* axiosResponseInterceptor.onFulfilled(response), response.config being the
\* config onFulfilled returned for call c; the interceptor runs on the promise
\* chain of the call, in the store that was current when the call was made
AxiosResponseOnFulfilled(c, statusCode) ==
  /\ last = NoRecord
  /\ outbound[c].sent
  /\ ~outbound[c].settled
  /\ getTraceId = outbound[c].ambient
  /\ LET url == FullUrl(outbound[c])
         ignored == url # <<>> /\ shouldIgnorePath(url, config.ignoreAxiosTraceRoutes)
         startTime == Or(outbound[c].startTime, Num(clock))
         requestId == outbound[c].metadata
         duration == Num(clock - startTime[2])
         mockLocals == [requestId |-> requestId, traceId |-> getTraceId,
                        startTime |-> startTime]
     IN /\ IF ignored
           THEN UNCHANGED <<uuidCount, last>>
           ELSE Respond(0, mockLocals, statusCode,
                        [NoOptions EXCEPT !.requestId = requestId, !.duration = duration,
                                          !.traceId = getTraceId])
        /\ outbound' = [outbound EXCEPT ![c].settled = TRUE,
                                        ![c].returned = [state |-> "returned",
                                                         value |-> Lit(statusCode)],
                                        ![c].answered = IF ignored THEN 0 ELSE 1,
                                        ![c].answer = last']
  /\ Forget
  /\ UNCHANGED <<current, callstack, status, captured, scope, wrapId, reqRes, locals, reqLog,
                 config, traceIdMap, inbound, clock>>

InitState ==
  /\ current = NoStores
  /\ callstack = <<>>
  /\ status = [t \in Tasks |-> "new"]
  /\ captured = [t \in Tasks |-> NoStores]
  /\ scope = [t \in Tasks |-> Undefined]
  /\ lastGet = NoGet
  /\ runResult = NoResult
  /\ wrapId = [w \in Wrappers |-> Undefined]
  /\ uuidCount = 0
  /\ locals = [p \in Pairs |-> NoLocals]
  /\ reqLog = [p \in Pairs |-> Undefined]
  /\ last = NoRecord
  /\ traceIdMap = EmptyObj
  /\ inbound = [p \in Pairs |-> NoInbound]
  /\ outbound = [c \in Calls |-> NoOutbound]
  /\ clock = 1

\* a logger constructed without ignore lists; the request objects the callers
\* pass have no res until Express attaches one
Init ==
  /\ InitState
  /\ reqRes = [p \in Pairs |-> FALSE]
  /\ config = NoConfig

\* a logger constructed with ignore lists, behind Express: every req has its res
InitMw ==
  /\ InitState
  /\ reqRes = [p \in Pairs |-> TRUE]
  /\ config \in Configs

NextCtx ==
  \/ \E t \in Tasks, id \in RunIds : Run(t, "utils", id)
  \/ \E w \in Wrappers, id \in OptIds : WithTrace(w, id)
  \/ \E w \in Wrappers, t \in Tasks : Invoke(w, t)
  \/ \E t \in Tasks : GetTraceId(t, "utils")
  \/ \E t \in Tasks : Await(t)
  \/ \E t \in Tasks, r \in Results : Return(t, r)
  \/ \E t \in Tasks : Resume(t)

SpecCtx == Init /\ [][NextCtx]_vars

\* the logging operations, called from top-level code and from tasks in a scope
Next ==
  \/ \E t \in Callers, id \in RunIds : Run(t, "utils", id)
  \/ \E t \in Callers : Await(t)
  \/ \E t \in Callers : Return(t, Undefined)
  \/ \E t \in Callers : Resume(t)
  \/ \E p \in Pairs : Attach(p)
  \/ \E l \in Levels, m \in Messages, o \in LogOptions : Log(l, m, o)
  \/ \E p \in Pairs, o \in IdOptions : HttpRequest(p, o)
  \/ \E p \in Pairs, c \in OkCodes, o \in IdOptions : HttpResponse(p, c, o)
  \/ \E x \in TxStatuses, o \in IdOptions : SftpTransaction(x, o)
  \/ \E x \in TxStatuses, o \in IdOptions : DbQueryTransaction(x, o)
  \/ Flush

Spec == Init /\ [][Next]_vars

\* the http operations over every status code and level option
NextHttp ==
  \/ \E t \in Callers, id \in CallerIds : Run(t, "utils", id)
  \/ \E t \in Callers : Return(t, Undefined)
  \/ \E p \in Pairs : Attach(p)
  \/ \E p \in Pairs, o \in LevelOptions : HttpRequest(p, o)
  \/ \E p \in Pairs, c \in StatusCodes, o \in LevelOptions : HttpResponse(p, c, o)
  \/ Flush

SpecHttp == Init /\ [][NextHttp]_vars

\* the handler of the request of pair p runs as the task of the same number
HandlerTask(p) == p

\* requests through traceMiddleware, their handlers, outbound calls
NextMw ==
  \/ \E p \in Pairs, path \in InboundPaths, h \in HeaderValues :
       TraceMiddleware(p, HandlerTask(p), path, h)
  \/ \E c \in Calls, u \in Urls, b \in BaseUrls : AxiosOnFulfilled(c, u, b)
  \/ \E t \in Tasks : Await(t)
  \/ \E t \in Tasks : Return(t, Undefined)
  \/ \E t \in Tasks : Resume(t)
  \/ \E p \in Pairs, c \in OkCodes : Finish(p, c)
  \/ Flush

SpecMw == InitMw /\ [][NextMw]_vars

\* the application logs the request of pair p itself while it is being served
HandlerRequest(p) ==
  /\ inbound[p].seen
  /\ ~inbound[p].finished
  /\ HttpRequest(p, NoOptions)

\* requests through traceMiddleware whose handlers may log them again
NextInbound ==
  \/ \E p \in Pairs, path \in InboundPaths, h \in HeaderValues :
       TraceMiddleware(p, HandlerTask(p), path, h)
  \/ \E p \in Pairs : HandlerRequest(p)
  \/ \E t \in Tasks : Await(t)
  \/ \E t \in Tasks : Return(t, Undefined)
  \/ \E t \in Tasks : Resume(t)
  \/ \E p \in Pairs, c \in OkCodes : Finish(p, c)
  \/ Flush

SpecInbound == InitMw /\ [][NextInbound]_vars

\* the operations that log a duration, called as the clock advances
NextTime ==
  \/ Tick
  \/ \E p \in Pairs : Attach(p)
  \/ \E p \in Pairs, o \in DurationOptions : HttpRequest(p, o)
  \/ \E p \in Pairs, c \in OkCodes, o \in DurationOptions : HttpResponse(p, c, o)
  \/ \E x \in TxStatuses, o \in TxOptions : SftpTransaction(x, o)
  \/ \E x \in TxStatuses, o \in TxOptions : DbQueryTransaction(x, o)
  \/ Flush

SpecTime == Init /\ [][NextTime]_vars

\* a logger constructed with one ignoreTraceRoutes pattern
InitGlob ==
  /\ InitState
  /\ reqRes = [p \in Pairs |-> TRUE]
  /\ config \in [ignoreTraceRoutes : {<<g>> : g \in GlobPatterns}, ignoreAxiosTraceRoutes : {<<>>}]

\* requests of every path through traceMiddleware
NextGlob ==
  \/ \E p \in Pairs, path \in GlobPaths : TraceMiddleware(p, HandlerTask(p), path, Undefined)
  \/ \E t \in Tasks : Return(t, Undefined)
  \/ \E p \in Pairs, c \in OkCodes : Finish(p, c)
  \/ Flush

SpecGlob == InitGlob /\ [][NextGlob]_vars

\* httpRequest over requests with headers
NextHeaders ==
  \/ \E t \in Callers, id \in CallerIds : Run(t, "utils", id)
  \/ \E t \in Callers : Return(t, Undefined)
  \/ \E p \in Pairs, h \in HeaderSets : HttpRequestWith(p, h, NoOptions)
  \/ Flush

SpecHeaders == InitMw /\ [][NextHeaders]_vars

\* outbound calls made at top level and by tasks running in scopes
\* tasks are interchangeable: they are started in the order of their numbers
StartInOrder(t) ==
  /\ \A u \in Tasks : u < t => status[u] # "new"
  /\ \E id \in RunIds : Run(t, "utils", id)

\* a logger constructed without ignoreTraceRoutes
InitOutbound ==
  /\ InitState
  /\ reqRes = [p \in Pairs |-> TRUE]
  /\ config \in {o \in Configs : o.ignoreTraceRoutes = <<>>}

NextOutbound ==
  \/ \E t \in Tasks : StartInOrder(t)
  \/ \E t \in Tasks : Await(t)
  \/ \E t \in Tasks : Return(t, Undefined)
  \/ \E t \in Tasks : Resume(t)
  \/ \E c \in Calls, u \in Urls : AxiosOnFulfilled(c, u, <<>>)
  \/ Flush

SpecOutbound == InitOutbound /\ [][NextOutbound]_vars

\* outbound calls that fail, before or after they are sent
NextFailure ==
  \/ \E t \in Callers, id \in CallerIds : Run(t, "utils", id)
  \/ \E t \in Callers : Return(t, Undefined)
  \/ \E c \in Calls, u \in Urls, b \in BaseUrls : AxiosOnFulfilled(c, u, b)
  \/ \E c \in Calls, r \in FailureStatuses : AxiosTraceOnRejected(c, r)
  \/ \E c \in Calls, r \in FailureStatuses : AxiosResponseOnRejected(c, r)
  \/ Flush

SpecFailure == InitOutbound /\ [][NextFailure]_vars

\* outbound calls and their responses, made at top level or inside a scope
NextPairing ==
  \/ \E t \in Callers, id \in CallerIds : Run(t, "utils", id)
  \/ \E t \in Callers : Return(t, Undefined)
  \/ \E c \in Calls, u \in Urls, b \in BaseUrls : AxiosOnFulfilled(c, u, b)
  \/ \E c \in Calls, x \in OkCodes : AxiosResponseOnFulfilled(c, x)
  \/ \E c \in Calls, r \in FailureStatuses : AxiosResponseOnRejected(c, r)
  \/ Flush

SpecPairing == InitOutbound /\ [][NextPairing]_vars

\* the tracing module's own TraceContextManager (src/tracing)
NextTracing ==
  \/ \E t \in Tasks, id \in RunIds : Run(t, "tracing", id)
  \/ \E t \in Tasks : GetTraceId(t, "tracing")
  \/ \E t \in Tasks : Await(t)
  \/ \E t \in Tasks, r \in Results : Return(t, r)
  \/ \E t \in Tasks : Resume(t)

SpecTracing == Init /\ [][NextTracing]_vars

\* options: GeneralLogOptions of StructuredLogger.log
StructuredOptions == [workflowId : {Undefined} \cup CallerIds, traceId : OptIds]

\* StructuredLogger.log(level, message, options), getTraceId(workflowId) of the
\* id generator included: the ids are minted in the order workflowId, traceId,
\* logId
StructuredLog(level, options) ==
  /\ last = NoRecord
  /\ LET m1 == IF Truthy(options.workflowId) THEN 0 ELSE 1
         workflowId == Or(options.workflowId, uuidv4(1))
         lookup == ~Truthy(options.traceId)
         has == workflowId \in DOMAIN traceIdMap
         m2 == IF lookup /\ ~has THEN m1 + 1 ELSE m1
         traceId == IF ~lookup THEN options.traceId
                    ELSE IF has THEN traceIdMap[workflowId] ELSE uuidv4(m2)
         logEntry == [k \in {"logId", "traceId", "workflowId", "logType"} |->
                        CASE k = "logId" -> uuidv4(m2 + 1)
                          [] k = "traceId" -> traceId
                          [] k = "workflowId" -> workflowId
                          [] k = "logType" -> Lit("general")]
     IN /\ CanMint(m2 + 1)
        /\ uuidCount' = uuidCount + m2 + 1
        /\ traceIdMap' = IF lookup /\ ~has
                         THEN Spread(traceIdMap, Obj1(workflowId, traceId))
                         ELSE traceIdMap
        /\ Emit("structuredLog", level, logEntry, options, Undefined)
  /\ Forget
  /\ UNCHANGED <<current, callstack, status, captured, scope, wrapId, reqRes, locals, reqLog,
                 config, inbound, outbound, clock>>

\* clearTraceId(workflowId)
ClearTraceId(workflowId) ==
  /\ last = NoRecord
  /\ workflowId \in DOMAIN traceIdMap
  /\ traceIdMap' = Rest(traceIdMap, {workflowId})
  /\ Forget
  /\ UNCHANGED <<current, callstack, status, captured, scope, wrapId, uuidCount, reqRes,
                 locals, reqLog, last, config, inbound, outbound, clock>>

\* the Winston-based logger and the id generator it resolves trace ids with
NextStructured ==
  \/ \E l \in Levels, o \in StructuredOptions : StructuredLog(l, o)
  \/ \E w \in CallerIds : ClearTraceId(w)
  \/ Flush

SpecStructured == Init /\ [][NextStructured]_vars

\* several requests in flight, each on a req/res pair of its own, their
\* httpRequest and httpResponse calls interleaved as the clock runs
Inflight == 1..NumInflight

InitStash ==
  /\ current = NoStores
  /\ callstack = <<>>
  /\ status = [t \in Tasks |-> "new"]
  /\ captured = [t \in Tasks |-> NoStores]
  /\ scope = [t \in Tasks |-> Undefined]
  /\ lastGet = NoGet
  /\ runResult = NoResult
  /\ wrapId = [w \in Wrappers |-> Undefined]
  /\ uuidCount = 0
  /\ locals = [p \in Inflight |-> NoLocals]
  /\ reqLog = [p \in Inflight |-> Undefined]
  /\ reqRes = [p \in Inflight |-> TRUE]
  /\ last = NoRecord
  /\ traceIdMap = EmptyObj
  /\ inbound = [p \in Pairs |-> NoInbound]
  /\ outbound = [c \in Calls |-> NoOutbound]
  /\ config = NoConfig
  /\ clock = 1

\* the requests whose httpRequest call has stored its ids on the pair
Stashed(p) == Truthy(locals[p].requestId)

\* the pairs are numbered in the order their requests arrive
Arrive(p, options) ==
  /\ \A q \in Inflight : q < p => Stashed(q)
  /\ HttpRequest(p, options)

NextStash ==
  \/ Tick
  \/ \E p \in Inflight, o \in IdOptions : Arrive(p, o)
  \/ \E p \in Inflight, c \in OkCodes, o \in IdOptions : HttpResponse(p, c, o)
  \/ Flush

SpecStash == InitStash /\ [][NextStash]_vars

\* httpResponse with and without a stash, ids and a start time in its options
\* and a scope around it
NextPrecedence ==
  \/ Tick
  \/ \E t \in Callers, id \in CallerIds : Run(t, "utils", id)
  \/ \E t \in Callers : Return(t, Undefined)
  \/ \E p \in Pairs : Attach(p)
  \/ \E p \in Pairs, o \in IdOptions : HttpRequest(p, o)
  \/ \E p \in Pairs, c \in OkCodes, o \in ResponseOptions : HttpResponse(p, c, o)
  \/ Flush

SpecPrecedence == Init /\ [][NextPrecedence]_vars

(***************************************************************************)
(* Trace context claims                                                    *)
(***************************************************************************)
\* C1: context isolation. Whatever the interleaving of tasks at their
\* suspension points, every getTraceId() call made on the chain of a task
\* started with run(id, fn), directly or through withTrace, returns that id.
C1_ContextIsolation ==
  lastGet.task # 0 => lastGet.value = scope[lastGet.task]

\* a resumed task reads its id while another task, started with a different
\* id, is suspended in between
C1_Witness ==
  /\ callstack # <<>>
  /\ callstack[1].kind = "resume"
  /\ lastGet.task = Executing
  /\ lastGet.value = scope[Executing]
  /\ \E u \in Tasks : status[u] = "suspended" /\ scope[u] # scope[Executing]

\* C7: nested scopes. The executing code always sees the id of the nearest
\* run() on its own chain: the inner id while the inner callback (or one of
\* its continuations) executes, the outer id again once the inner callback
\* has returned, and nothing at top level once the outermost run() has
\* returned.
C7_NestedScopes ==
  getTraceId = IF callstack = <<>> THEN Undefined ELSE scope[Executing]

\* an inner run() with another id has just returned into the outer callback
C7_Witness ==
  /\ callstack # <<>>
  /\ runResult.task \in Tasks
  /\ runResult.id # scope[Executing]
  /\ getTraceId = scope[Executing]

\* C8: run(traceId, fn) returns exactly what fn returns, and a withTrace
\* wrapper returns exactly what the wrapped function returns.
C8_RunReturnsFnResult ==
  runResult.task # 0 =>
    /\ runResult.ret = runResult.fn
    /\ runResult.wrapper # 0 => runResult.wret = runResult.fn

(***************************************************************************)
(* Logging claims                                                          *)
(***************************************************************************)
\* a logging operation has just handed a record to the backend
Emitted == last.op \notin {"none", "raised"}

\* C2: every record emitted while a run scope with id T is active on the
\* calling task carries traceId T. Stated for the calls the spec does not
\* itself except: a non-empty T, no options.traceId, no traceId stashed on the
\* req/res pair.
C2_ScopeTraceId ==
  (/\ Emitted
   /\ Truthy(last.active)
   /\ ~Truthy(last.args.options.traceId)
   /\ ~Truthy(last.args.stash.traceId))
    => Field(last.data, "traceId") = last.active

\* C3: a record emitted while no run scope is active has a non-empty traceId.
C3_NoScopeTraceId ==
  (Emitted /\ last.active = Undefined) => Truthy(Field(last.data, "traceId"))

\* C4: request/response correlation. When httpRequest(req) on a pair whose
\* req.res is the response has returned requestId R, an httpResponse(res, req,
\* options) on that pair with no options.requestId emits a record whose
\* requestId is R.
C4_Correlation ==
  (/\ last.op = "httpResponse"
   /\ reqRes[last.args.pair]
   /\ reqLog[last.args.pair] # Undefined
   /\ ~Truthy(last.args.options.requestId))
    => Field(last.data, "requestId") = reqLog[last.args.pair]

\* the response record repeats a requestId that httpRequest minted
C4_Witness ==
  /\ last.op = "httpResponse"
  /\ reqRes[last.args.pair]
  /\ ~Truthy(last.args.options.requestId)
  /\ reqLog[last.args.pair] \in {Uuid(n) : n \in 1..MaxUuid}
  /\ Field(last.data, "requestId") = reqLog[last.args.pair]

\* C5: without options.level, httpResponse emits at error for a status code
\* >= 500, at warn for 400..499 and at info for every other status code.
C5_StatusLevel ==
  (last.op = "httpResponse" /\ last.args.options.level = NoLevel)
    => last.level = IF last.args.statusCode >= 500 THEN "error"
                    ELSE IF last.args.statusCode >= 400 THEN "warn"
                    ELSE "info"

InboundUntouched(p) ==
  /\ inbound[p].next = 1
  /\ inbound[p].nextScope = Undefined
  /\ inbound[p].resHeader = Undefined
  /\ inbound[p].wrapped = 0
  /\ inbound[p].listeners = <<>>
  /\ inbound[p].logged = 0

\* onFulfilled returned the config as it was and logged nothing
OutboundUntouched(c) ==
  /\ outbound[c].header = Undefined
  /\ outbound[c].metadata = Undefined
  /\ outbound[c].logged = 0

\* C9: ignored routes pass through untouched. A request whose path matches an
\* ignoreTraceRoutes pattern only has next() called once (no response header,
\* no scope, no wrapped send, no listener, no record), and an outbound call
\* whose URL matches an ignoreAxiosTraceRoutes pattern gets its config back
\* unchanged (no trace header, no metadata, no record).
C9_IgnoredUntouched ==
  /\ \A p \in Pairs :
       (inbound[p].seen /\ shouldIgnorePath(inbound[p].path, config.ignoreTraceRoutes))
         => InboundUntouched(p)
  /\ \A c \in Calls :
       (outbound[c].sent
        /\ shouldIgnorePath(FullUrl(outbound[c]), config.ignoreAxiosTraceRoutes))
         => OutboundUntouched(c)

\* the ids uuidv4() can have returned so far
Minted == {Uuid(n) : n \in 1..uuidCount}

\* C10: for every request that is not ignored traceMiddleware picks one id,
\* the request's trace header when it has a non-empty one and a freshly minted
\* id otherwise, sets the response's trace header to it and calls next() once
\* inside a scope where getTraceId() returns that id.
C10_TraceMiddlewareId ==
  \A p \in Pairs :
    (inbound[p].seen /\ ~shouldIgnorePath(inbound[p].path, config.ignoreTraceRoutes))
      => /\ IF Truthy(inbound[p].header)
            THEN inbound[p].resHeader = inbound[p].header
            ELSE /\ inbound[p].resHeader \in Minted
                 /\ \A q \in Pairs \ {p} : inbound[q].resHeader # inbound[p].resHeader
         /\ inbound[p].next = 1
         /\ inbound[p].nextScope = inbound[p].resHeader

\* with an ignore list configured, a request outside it that carries a trace
\* header has been let through with that id
C10_Witness ==
  \E p \in Pairs :
    /\ config.ignoreTraceRoutes # <<>>
    /\ inbound[p].seen
    /\ inbound[p].path = HealthxPath
    /\ inbound[p].header = Str(1)
    /\ inbound[p].resHeader = Str(1)
    /\ inbound[p].next = 1
    /\ inbound[p].nextScope = Str(1)

\* onFulfilled did not take outbound call c for ignored
Traced(c) == outbound[c].sent /\ outbound[c].logged = 1

\* C11: for an outbound call that is not ignored, onFulfilled called where the
\* active trace id is a non-empty T returns a config whose trace header is T
\* and emits an httpRequest record with traceId T, whatever other scopes are
\* in flight; called where no scope is active it adds no trace header.
C11_OutboundTraceHeader ==
  /\ \A c \in Calls :
       Traced(c) =>
         IF Truthy(outbound[c].ambient)
         THEN outbound[c].header = outbound[c].ambient
              /\ outbound[c].traceId = outbound[c].ambient
         ELSE outbound[c].header = Undefined
  /\ (last.op = "httpRequest" /\ last.args.pair = 0 /\ Truthy(last.active))
       => /\ last.active = scope[last.task]
          /\ Field(last.data, "traceId") = last.active

\* a resumed task has just made a traced call under its own id while another
\* task, started with a different id, is suspended
C11_Witness ==
  /\ last.op = "httpRequest"
  /\ last.args.pair = 0
  /\ callstack # <<>>
  /\ callstack[1].kind = "resume"
  /\ Truthy(last.active)
  /\ \E c \in Calls : Traced(c) /\ outbound[c].header = scope[Executing]
  /\ \E u \in Tasks : status[u] = "suspended" /\ Truthy(scope[u]) /\ scope[u] # scope[Executing]

\* C12: no logging operation raises to its caller, whatever its input, a null
\* message included.
C12_NeverRaises == last.op # "raised"

\* C13: the record log() emits keeps the logId the logger minted and the type
\* 'general' and has no level field, whatever the keys of an object message
\* and of the extra option fields, and every other caller field is in it.
C13_ReservedFields ==
  last.op = "log" =>
    /\ Field(last.data, "logId") \in Minted
    /\ Field(last.data, "type") = Lit("general")
    /\ "level" \notin DOMAIN last.data
    /\ \A k \in (DOMAIN last.args.message.fields \cup DOMAIN last.args.options.extra)
                  \ {"logId", "type", "level", "traceId", "requestId", "message"} :
         k \in DOMAIN last.data

\* C14: log(level, message, options) emits its record with traceId
\* options.traceId and requestId options.requestId when they are given, and
\* at the severity options.level, when given, instead of the positional one.
C14_OptionsOverride ==
  last.op = "log" =>
    LET options == last.args.options
    IN /\ Truthy(options.traceId) => Field(last.data, "traceId") = options.traceId
       /\ Truthy(options.requestId) => Field(last.data, "requestId") = options.requestId
       /\ options.level # NoLevel => last.level = options.level

\* C15: sftpTransaction and dbQueryTransaction call the backend at error
\* exactly when the status is 'failure' and at info otherwise, whatever the
\* options (options.level included) and the scope.
C15_TxLevel ==
  last.op \in {"sftpTransaction", "dbQueryTransaction"} =>
    last.level = (IF Field(last.data, "txStatus") = Lit("failure") THEN "error" ELSE "info")

\* a failed transaction has been logged with options.level 'info'
C15_Witness ==
  /\ last.op = "dbQueryTransaction"
  /\ Field(last.data, "txStatus") = Lit("failure")
  /\ last.args.options.level = "info"
  /\ last.level = "error"
  /\ last.written

\* C16: the duration httpResponse, sftpTransaction and dbQueryTransaction log
\* is options.duration whenever it is supplied, 0 included; otherwise now -
\* startTime when a start time is stashed or given in the options; else 0.
C16_Duration ==
  last.op \in {"httpResponse", "sftpTransaction", "dbQueryTransaction"} =>
    LET options == last.args.options
        startTime == Or(last.args.stash.startTime, options.startTime)
    IN Field(last.data, "duration") =
         IF options.duration # Undefined THEN options.duration
         ELSE IF startTime # Undefined THEN Num(last.now - startTime[2])
         ELSE Num(0)

\* C17: shouldIgnorePath(path, patterns) is true exactly when some pattern
\* glob-matches the whole path: '*' matches any run of characters, '?' exactly
\* one character, and every other character of the pattern only itself.
C17_GlobMatch ==
  LET RECURSIVE Glob(_, _, _, _)
      Glob(g, i, s, j) ==
        IF i > Len(g)
        THEN j > Len(s)
        ELSE CASE g[i] = "*" -> Glob(g, i + 1, s, j) \/ (j <= Len(s) /\ Glob(g, i, s, j + 1))
               [] g[i] = "?" -> j <= Len(s) /\ Glob(g, i + 1, s, j + 1)
               [] OTHER -> j <= Len(s) /\ s[j] = g[i] /\ Glob(g, i + 1, s, j + 1)
  IN \A p \in Pairs :
       inbound[p].seen =>
         (InboundUntouched(p) <=>
            \E k \in 1..Len(config.ignoreTraceRoutes) :
              Glob(config.ignoreTraceRoutes[k], 1, inbound[p].path, 1))

C20_OutboundFailure ==
  /\ \A c \in Calls :
       outbound[c].settled =>
         /\ outbound[c].returned = [state |-> "rejected", value |-> outbound[c].error]
         /\ (outbound[c].sent
              /\ ~shouldIgnorePath(FullUrl(outbound[c]), config.ignoreAxiosTraceRoutes))
               => outbound[c].answered = 1
         /\ ~outbound[c].sent => outbound[c].answered = 0
  /\ \A c \in Calls :
       (outbound[c].settled /\ outbound[c].answered = 1)
         => LET answer == outbound[c].answer
            IN /\ answer.written
               /\ IF outbound[c].error.response # NoResponse
                  THEN /\ answer.op = "httpResponse"
                       /\ Field(answer.data, "type") = Lit("httpResponse")
                       /\ Field(answer.data, "status") = Lit(outbound[c].error.response)
                  ELSE /\ answer.op = "log"
                       /\ Field(answer.data, "type") = Lit("general")
                       /\ answer.level = "error"

\* inside a scope, a call that was logged has failed without a response and
\* the general error record has been written
C20_Witness ==
  /\ last.op = "log"
  /\ last.level = "error"
  /\ Truthy(last.active)
  /\ \E c \in Calls :
       /\ outbound[c].settled
       /\ outbound[c].logged = 1
       /\ outbound[c].answered = 1
       /\ outbound[c].answer = last
       /\ outbound[c].error.response = NoResponse
       /\ outbound[c].returned.state = "rejected"

\* the request of pair p went through traceMiddleware and was not ignored
Served(p) == inbound[p].seen /\ inbound[p].listeners # <<>>

\* C21: for every request that is not ignored, traceMiddleware emits one
\* httpRequest record before the handler runs, no httpResponse record until
\* the response's 'finish' event, and on 'finish' one httpResponse record with
\* the traceId and the requestId of that httpRequest record.
C21_InboundLifecycle ==
  \A p \in Pairs :
    /\ (inbound[p].seen /\ ~shouldIgnorePath(inbound[p].path, config.ignoreTraceRoutes))
         => inbound[p].logged = 1 /\ inbound[p].next = 1 /\ Served(p)
    /\ ~inbound[p].finished => inbound[p].answer = NoRecord
    /\ (Served(p) /\ inbound[p].finished)
         => /\ inbound[p].answer.op = "httpResponse"
            /\ Field(inbound[p].answer.data, "traceId") = inbound[p].listeners[1].traceId
            /\ Field(inbound[p].answer.data, "requestId") = inbound[p].listeners[1].requestId

\* C29: the httpResponse record traceMiddleware emits on 'finish' carries the
\* requestId of the httpRequest record traceMiddleware emitted for the
\* request, whatever the handler did in between, a second httpRequest(req)
\* included.
C29_FinishRequestId ==
  \A p \in Pairs :
    (Served(p) /\ inbound[p].finished /\ inbound[p].answer.op = "httpResponse")
      => Field(inbound[p].answer.data, "requestId") = inbound[p].listeners[1].requestId

\* C22: for an outbound call that is not ignored, the httpResponse record
\* axiosResponseInterceptor.onFulfilled emits carries the requestId and the
\* traceId of the httpRequest record axiosTraceMiddleware.onFulfilled
\* emitted for the call, inside a scope and outside of one.
C22_OutboundPairing ==
  \A c \in Calls :
    (Traced(c) /\ outbound[c].settled /\ outbound[c].returned.state = "returned"
     /\ outbound[c].answered = 1)
      => /\ outbound[c].answer.op = "httpResponse"
         /\ Field(outbound[c].answer.data, "requestId") = outbound[c].metadata
         /\ Field(outbound[c].answer.data, "traceId") = outbound[c].traceId

\* C28: once an outbound call has settled, axiosResponseInterceptor
\* (onFulfilled or onRejected) has emitted a record for it if and only if
\* axiosTraceMiddleware.onFulfilled emitted its httpRequest record, for every
\* url, baseURL and ignoreAxiosTraceRoutes list.
C28_SameIgnoreDecision ==
  \A c \in Calls :
    (outbound[c].sent /\ outbound[c].settled)
      => (outbound[c].answered = 1 <=> outbound[c].logged = 1)

\* C23: with several requests in flight, each on a req/res pair of its own, and
\* their httpRequest and httpResponse calls interleaved in any order, every
\* httpResponse record carries the requestId and the traceId that the
\* httpRequest call on its own pair stored, and a duration counted from the
\* start time stored on its own pair.
C23_StashIsolation ==
  (last.op = "httpResponse" /\ last.args.pair \in Inflight /\ Stashed(last.args.pair))
    => LET own == locals[last.args.pair]
       IN /\ Field(last.data, "requestId") = own.requestId
          /\ Field(last.data, "traceId") = own.traceId
          /\ Field(last.data, "duration") = Num(last.now - own.startTime[2])

\* two requests are in flight with different requestIds, traceIds and start
\* times stored, and the response of the later one is logged with its own
C23_Witness ==
  /\ last.op = "httpResponse"
  /\ last.args.pair = 2
  /\ Stashed(1) /\ Stashed(2)
  /\ locals[1].requestId # locals[2].requestId
  /\ locals[1].traceId # locals[2].traceId
  /\ locals[1].startTime # locals[2].startTime
  /\ Field(last.data, "requestId") = locals[2].requestId
  /\ Field(last.data, "traceId") = locals[2].traceId
  /\ Field(last.data, "duration") = Num(last.now - locals[2].startTime[2])

C25_DurationNonNegative ==
  last.op \in {"httpRequest", "httpResponse", "sftpTransaction", "dbQueryTransaction"}
    => /\ Field(last.data, "duration")[1] = "num"
       /\ Field(last.data, "duration")[2] >= 0

\* C26: each call of a logging operation that returns to its caller results in
\* exactly one record written by the backend: log(level, message) for every
\* level in {error, warn, info, debug}, and each httpRequest, httpResponse,
\* sftpTransaction and dbQueryTransaction call.
C26_OneRecordPerCall == Emitted => last.written

\* C27: the logger keeps no state beyond its configuration. No logging call
\* leaves an entry of its own in the process-wide map of workflowId to
\* traceId: the map only ever holds entries for workflowIds that callers
\* passed, so its size is bounded by the number of workflows however many
\* records are logged.
C27_NoStateGrowth == DOMAIN traceIdMap \subseteq CallerIds

\* C30: the trace id of a withTrace wrapper is fixed when withTrace is called.
\* It never changes afterwards; every invocation of the wrapper, also while
\* earlier invocations of it are still in flight, enters a scope with that id
\* and mints nothing; the scope id of an invocation in flight stays what it
\* was, and every getTraceId() call returns the scope id of the calling
\* invocation.
C30_WrapperIdFixed ==
  [][/\ \A w \in Wrappers : wrapId[w] # Undefined => wrapId'[w] = wrapId[w]
     /\ (Len(callstack') > Len(callstack) /\ callstack'[Len(callstack')].wrapper # 0)
          => LET frame == callstack'[Len(callstack')]
             IN /\ uuidCount' = uuidCount
                /\ scope'[frame.task] = wrapId[frame.wrapper]
     /\ \A t \in Tasks : (status[t] # "new" /\ status'[t] # "done") => scope'[t] = scope[t]
     /\ lastGet'.task # 0 => lastGet'.value = scope'[lastGet'.task]]_vars

\* the only id ever minted is the one of wrapper 1; one invocation of the
\* wrapper is suspended under it and another invocation of the same wrapper
\* reads it
C30_Witness ==
  /\ wrapId[1] = Uuid(1)
  /\ uuidCount = 1
  /\ callstack # <<>>
  /\ callstack[1].wrapper = 1
  /\ lastGet.task = Executing
  /\ lastGet.value = Uuid(1)
  /\ \E u \in Tasks : u # Executing /\ status[u] = "suspended" /\ scope[u] = Uuid(1)

====
